---- MODULE Spec2Model ----
(***************************************************************************)
(* Model of g25_average.py: the record parser, the finiteness validator,   *)
(* the group classifier, the two averaging entry points and the output     *)
(* formatter.                                                              *)
(*                                                                         *)
(* Strings are sequences of one-character strings.  A Python float is a    *)
(* binary floating-point number of PBits significand bits whose smallest   *)
(* step is 2^-UnitBits: a finite value is the record Fin(n) standing for   *)
(* n * 2^-UnitBits, every arithmetic result is rounded to the nearest      *)
(* representable value, ties to even, and a result beyond MaxFin is an     *)
(* infinity.  (binary64 has 53 significand bits; the rounding, overflow    *)
(* and non-associativity are those of the format at any width.)            *)
(***************************************************************************)
EXTENDS Integers, Sequences, FiniteSets, TLC

\* ------------------------------------------------------------- bounds
PBits == 7
UnitBits == 20
MaxLines == 2
MaxNameLen == 4
MaxSamples == 3
GroupLarge == 99

\* ------------------------------------------------- program constants
DIMS == 25
Decimals == 6

\* ------------------------------------------------------------- floats
RECURSIVE Pow(_, _)
Pow(b, k) == IF k = 0 THEN 1 ELSE b * Pow(b, k - 1)

PMax == Pow(2, PBits)
MaxFin == (PMax - 1) * Pow(2, UnitBits)

Fin(n) == [k |-> "fin", n |-> n]
PInf == [k |-> "inf", n |-> 1]
NInf == [k |-> "inf", n |-> -1]
NaN == [k |-> "nan", n |-> 0]
Zero == Fin(0)

Abs(n) == IF n < 0 THEN -n ELSE n
Sgn(n) == IF n < 0 THEN -1 ELSE 1

\* The spacing of the representable magnitudes around m.
RECURSIVE Step(_)
Step(m) == IF m < PMax THEN 1 ELSE 2 * Step(m \div 2)

\* The representable magnitude nearest to floor + rem/den (0 <= rem < den),
\* ties to the even significand.
RoundMag(floor, rem, den) ==
  LET s == Step(floor)
      q == floor \div s
      off == floor % s
      up == IF s = 1
            THEN 2 * rem > den \/ (2 * rem = den /\ q % 2 = 1)
            ELSE off > s \div 2 \/ (off = s \div 2 /\ (rem > 0 \/ q % 2 = 1))
  IN (IF up THEN q + 1 ELSE q) * s

\* A rounded magnitude with its sign; beyond MaxFin it overflows to infinity.
MkFloat(sign, mag) ==
  IF mag > MaxFin THEN (IF sign < 0 THEN NInf ELSE PInf) ELSE Fin(sign * mag)

\* x + y
FAdd(x, y) ==
  IF x.k = "nan" \/ y.k = "nan" THEN NaN
  ELSE IF x.k = "inf" THEN (IF y.k = "inf" /\ y.n # x.n THEN NaN ELSE x)
  ELSE IF y.k = "inf" THEN y
  ELSE LET e == x.n + y.n IN MkFloat(Sgn(e), RoundMag(Abs(e), 0, 1))

\* x / float(n) for a count n >= 1 (n < 2^PBits is exact as a float)
FDivCount(x, n) ==
  IF x.k # "fin" THEN x
  ELSE MkFloat(Sgn(x.n), RoundMag(Abs(x.n) \div n, Abs(x.n) % n, n))

\* math.isfinite
IsFinite(x) == x.k = "fin"

\* ------------------------------------------------------------ strings
Whitespace == {" ", "\t"}
Digits == <<"0", "1", "2", "3", "4", "5", "6", "7", "8", "9">>
DigitSet == {Digits[i] : i \in 1..10}
DigitVal(c) == (CHOOSE i \in 1..10 : Digits[i] = c) - 1

\* str.lstrip / str.rstrip / str.strip
RECURSIVE LStrip(_)
LStrip(s) == IF s # <<>> /\ Head(s) \in Whitespace THEN LStrip(Tail(s)) ELSE s

RECURSIVE RStrip(_)
RStrip(s) ==
  IF s # <<>> /\ s[Len(s)] \in Whitespace THEN RStrip(SubSeq(s, 1, Len(s) - 1)) ELSE s

Strip(s) == RStrip(LStrip(s))

\* c in s
Contains(s, c) == \E i \in 1..Len(s) : s[i] = c

\* The index of the first c in s from position i on, Len(s)+1 when there is none.
RECURSIVE Find(_, _, _)
Find(s, c, i) == IF i > Len(s) \/ s[i] = c THEN i ELSE Find(s, c, i + 1)

\* s.split(c): the fields between the occurrences of c
RECURSIVE Split(_, _)
Split(s, c) ==
  LET k == Find(s, c, 1)
  IN IF k > Len(s) THEN <<s>>
     ELSE <<SubSeq(s, 1, k - 1)>> \o Split(SubSeq(s, k + 1, Len(s)), c)

\* s.split(c, 1)[0]
SplitFirst(s, c) == SubSeq(s, 1, Find(s, c, 1) - 1)

\* s.startswith(c)
StartsWith(s, c) == s # <<>> /\ s[1] = c

\* sep.join(parts)
RECURSIVE Join(_, _)
Join(parts, sep) ==
  IF parts = <<>> THEN <<>>
  ELSE IF Len(parts) = 1 THEN parts[1]
  ELSE parts[1] \o <<sep>> \o Join(Tail(parts), sep)

\* ------------------------------------------------- float <-> decimal
\* The value of a string of decimal digits.
RECURSIVE DigitsVal(_)
DigitsVal(ds) ==
  IF ds = <<>> THEN 0 ELSE 10 * DigitsVal(SubSeq(ds, 1, Len(ds) - 1)) + DigitVal(ds[Len(ds)])

AllDigits(ds) == \A i \in 1..Len(ds) : ds[i] \in DigitSet

\* The float nearest to digits / 10^f, as float() rounds a decimal literal:
\* digits * 2^UnitBits / 10^f = digits * 2^(UnitBits-f) / 5^f units.
DecimalToFloat(sign, digits, f) ==
  LET den == Pow(5, f)
      mul == Pow(2, UnitBits - f)
      a == digits \div den
      b == digits % den
  IN MkFloat(sign, RoundMag(a * mul + (b * mul) \div den, (b * mul) % den, den))

\* float(tok): surrounding whitespace, an optional sign, then inf, nan or a
\* decimal literal with an optional fraction.  (Exponents, digit-group
\* underscores and the capitalised spellings are left out: no input of the
\* model contains them.)
ParseFloat(tok) ==
  LET s == Strip(tok)
      signed == s # <<>> /\ s[1] \in {"+", "-"}
      sign == IF signed /\ s[1] = "-" THEN -1 ELSE 1
      body == IF signed THEN Tail(s) ELSE s
      dot == Find(body, ".", 1)
      ip == SubSeq(body, 1, dot - 1)
      fp == SubSeq(body, dot + 1, Len(body))
  IN IF body = <<"i", "n", "f">> THEN [ok |-> TRUE, val |-> IF sign < 0 THEN NInf ELSE PInf]
     ELSE IF body = <<"n", "a", "n">> THEN [ok |-> TRUE, val |-> NaN]
     ELSE IF AllDigits(ip) /\ AllDigits(fp) /\ Len(ip) + Len(fp) >= 1
       THEN [ok |-> TRUE, val |-> DecimalToFloat(sign, DigitsVal(ip \o fp), Len(fp))]
     ELSE [ok |-> FALSE, val |-> NaN]

\* |n| units rounded to a whole number of 10^-Decimals, ties to even:
\* n * 10^Decimals / 2^UnitBits = n * 5^Decimals / 2^(UnitBits-Decimals).
RoundDecimals(n) ==
  LET den == Pow(2, UnitBits - Decimals)
      mul == Pow(5, Decimals)
      a == n \div den
      r == (n % den) * mul
      q == r \div den
      up == 2 * (r % den) > den \/ (2 * (r % den) = den /\ q % 2 = 1)
  IN a * mul + (IF up THEN q + 1 ELSE q)

\* The decimal digits of n >= 0, at least w of them (zero-padded on the left).
RECURSIVE IntToChars(_, _)
IntToChars(n, w) ==
  IF n < 10 /\ w <= 1 THEN <<Digits[n + 1]>>
  ELSE IntToChars(n \div 10, w - 1) \o <<Digits[(n % 10) + 1]>>

\* f"{x:.6f}"
FormatFloat(x) ==
  IF x.k = "nan" THEN <<"n", "a", "n">>
  ELSE IF x.k = "inf" THEN (IF x.n < 0 THEN <<"-">> ELSE <<>>) \o <<"i", "n", "f">>
  ELSE LET m == RoundDecimals(Abs(x.n))
           unit == Pow(10, Decimals)
       IN (IF x.n < 0 THEN <<"-">> ELSE <<>>)
          \o IntToChars(m \div unit, 1) \o <<".">> \o IntToChars(m % unit, Decimals)

\* ------------------------------------------------------ record parser
NoVec == <<>>

\* Faulty variant: `len(parts) < DIMS + 1`, so longer lines get through to
\* the float parser.
parse_g25_line_AtLeast(line) ==
  LET raw == Split(line, ",")
      parts == [i \in 1..Len(raw) |-> Strip(raw[i])]
  IN IF Len(parts) < DIMS + 1
       THEN [ok |-> FALSE, reason |-> "FieldCount", got |-> Len(parts),
             expected |-> DIMS + 1, name |-> <<>>, vec |-> NoVec]
     ELSE LET fl == [i \in 1..DIMS |-> ParseFloat(parts[i + 1])]
          IN IF \E i \in 1..DIMS : ~fl[i].ok
               THEN [ok |-> FALSE, reason |-> "BadFloat", got |-> Len(parts),
                     expected |-> DIMS + 1, name |-> parts[1], vec |-> NoVec]
             ELSE [ok |-> TRUE, reason |-> "", got |-> Len(parts),
                   expected |-> DIMS + 1, name |-> parts[1],
                   vec |-> [i \in 1..DIMS |-> fl[i].val]]

\* parse_g25_line(line): (name, vec), or the ValueError it raises
parse_g25_line(line) ==
  LET raw == Split(line, ",")
      parts == [i \in 1..Len(raw) |-> Strip(raw[i])]
  IN IF Len(parts) # DIMS + 1
       THEN [ok |-> FALSE, reason |-> "FieldCount", got |-> Len(parts),
             expected |-> DIMS + 1, name |-> <<>>, vec |-> NoVec]
     ELSE LET name == parts[1]
              fl == [i \in 1..DIMS |-> ParseFloat(parts[i + 1])]
          IN IF \E i \in 1..DIMS : ~fl[i].ok
               THEN [ok |-> FALSE, reason |-> "BadFloat", got |-> Len(parts),
                     expected |-> DIMS + 1, name |-> name, vec |-> NoVec]
             ELSE [ok |-> TRUE, reason |-> "", got |-> Len(parts),
                   expected |-> DIMS + 1, name |-> name,
                   vec |-> [i \in 1..DIMS |-> fl[i].val]]

\* Faulty variant: any() in place of all().
is_finite_vec_Any(vec) == \E i \in 1..Len(vec) : IsFinite(vec[i])

\* is_finite_vec(vec)
is_finite_vec(vec) == \A i \in 1..Len(vec) : IsFinite(vec[i])

\* format_g25(name, vec)
format_g25(name, vec) ==
  LET nums == Join([i \in 1..Len(vec) |-> FormatFloat(vec[i])], ",")
  IN name \o <<",">> \o nums

\* -------------------------------------------------------------- state
VARIABLES
  pc,           \* where the run stands: "load", "failed", "loaded", "infer", "averaged", ...
  lines,        \* load_vectors: the lines of the input file, in file order
  idx,          \* load_vectors: the number of the line the loop is at (from 1)
  samples,      \* load_vectors: the samples appended so far
  reached,      \* the numbers of the lines handed to parse_g25_line
  err,          \* the error the run ended with
  loaded,       \* the list load_vectors returned (main's samples)
  sample_name,  \* infer_group's argument
  label,        \* infer_group's result
  simple,       \* average_simple's result
  grouped,      \* average_grouped's result
  out_name,     \* the name given to format_g25
  avg,          \* the vector given to format_g25
  out_line,     \* format_g25's result
  reparsed      \* parse_g25_line's result on out_line

vars == <<pc, lines, idx, samples, reached, err, loaded, sample_name, label,
          simple, grouped, out_name, avg, out_line, reparsed>>
loadVars == <<lines, idx, samples, reached, err>>
inferVars == <<sample_name, label>>
avgVars == <<simple, grouped>>
fmtVars == <<out_name, avg, out_line, reparsed>>

NoErr == [kind |-> "none", idx |-> 0, name |-> <<>>, reason |-> "", got |-> 0,
          expected |-> 0, raw |-> <<>>]
NoResult == [done |-> FALSE, ok |-> FALSE, err |-> "", vec |-> NoVec, counts |-> <<>>]
NoParse == [ok |-> FALSE, reason |-> "none", got |-> 0, expected |-> 0,
            name |-> <<>>, vec |-> NoVec]

\* The variables a specification does not use keep these values.
IdleLoad == lines = <<>> /\ idx = 1 /\ samples = <<>> /\ reached = {} /\ err = NoErr
IdleInfer == sample_name = <<>> /\ label = <<>>
IdleAvg == simple = NoResult /\ grouped = NoResult
IdleFmt == out_name = <<>> /\ avg = NoVec /\ out_line = <<>> /\ reparsed = NoParse

\* ------------------------------------------------------- load_vectors
\* One turn of the loop over the lines: line = raw.strip()
CurRaw == lines[idx]
CurLine == Strip(CurRaw)
InLoop == pc = "load" /\ idx <= Len(lines)
\* Faulty variant: comment lines are not passed over.
Skipped_BlankOnly(raw) == Strip(raw) = <<>>

Skipped(raw) == Strip(raw) = <<>> \/ StartsWith(Strip(raw), "#")

\* if not line or line.startswith("#"): continue
LoadSkip ==
  /\ InLoop
  /\ Skipped(CurRaw)
  /\ idx' = idx + 1
  /\ UNCHANGED <<pc, lines, samples, reached, err, loaded, inferVars, avgVars, fmtVars>>

\* Faulty variant: a line the parser refuses is passed over.
LoadParseError_Skips ==
  /\ InLoop
  /\ ~Skipped(CurRaw)
  /\ ~parse_g25_line(CurLine).ok
  /\ reached' = reached \cup {idx}
  /\ idx' = idx + 1
  /\ UNCHANGED <<pc, lines, samples, err, loaded, inferVars, avgVars, fmtVars>>

\* parse_g25_line raised: the ValueError is re-raised with the place and the line
LoadParseError ==
  /\ InLoop
  /\ ~Skipped(CurRaw)
  /\ LET r == parse_g25_line(CurLine)
     IN /\ ~r.ok
        /\ err' = [kind |-> "FormatError", idx |-> idx, name |-> r.name,
                   reason |-> r.reason, got |-> r.got, expected |-> r.expected,
                   raw |-> CurRaw]
  /\ reached' = reached \cup {idx}
  /\ pc' = "failed"
  /\ UNCHANGED <<lines, idx, samples, loaded, inferVars, avgVars, fmtVars>>

\* if not is_finite_vec(vec): raise
LoadNonFinite ==
  /\ InLoop
  /\ ~Skipped(CurRaw)
  /\ LET r == parse_g25_line(CurLine)
     IN /\ r.ok
        /\ ~is_finite_vec(r.vec)
        /\ err' = [kind |-> "ValidationError", idx |-> idx, name |-> r.name,
                   reason |-> "NonFinite", got |-> r.got, expected |-> r.expected,
                   raw |-> <<>>]
  /\ reached' = reached \cup {idx}
  /\ pc' = "failed"
  /\ UNCHANGED <<lines, idx, samples, loaded, inferVars, avgVars, fmtVars>>

\* samples.append((name, vec))
LoadAppend ==
  /\ InLoop
  /\ ~Skipped(CurRaw)
  /\ LET r == parse_g25_line(CurLine)
     IN /\ r.ok
        /\ is_finite_vec(r.vec)
        /\ samples' = Append(samples, [name |-> r.name, vec |-> r.vec])
  /\ reached' = reached \cup {idx}
  /\ idx' = idx + 1
  /\ UNCHANGED <<pc, lines, err, loaded, inferVars, avgVars, fmtVars>>

\* if not samples: raise
LoadNoSamples ==
  /\ pc = "load"
  /\ idx > Len(lines)
  /\ samples = <<>>
  /\ err' = [NoErr EXCEPT !.kind = "NoSamplesError"]
  /\ pc' = "failed"
  /\ UNCHANGED <<lines, idx, samples, reached, loaded, inferVars, avgVars, fmtVars>>

\* return samples
LoadReturn ==
  /\ pc = "load"
  /\ idx > Len(lines)
  /\ samples # <<>>
  /\ loaded' = samples
  /\ pc' = "loaded"
  /\ UNCHANGED <<lines, idx, samples, reached, err, inferVars, avgVars, fmtVars>>

\* Input lines: a name, the first coordinate, the last coordinate and zeros
\* between them, n coordinates in all.
Zeros(n) == [i \in 1..n |-> <<"0">>]
MkLine(name, first, last, n) == Join(<<name, first>> \o Zeros(n - 2) \o <<last>>, ",")

GoodLine == MkLine(<<"A", ":", "1">>, <<"0", ".", "5">>, <<"1">>, DIMS)
PaddedLine ==
  <<" ">> \o MkLine(<<"B", "_", "2", " ">>, <<" ", "0", ".", "2", "5", "\t">>, <<"-", "1">>, DIMS)
InputLines ==
  { GoodLine,
    PaddedLine,
    MkLine(<<"A">>, <<"i", "n", "f">>, <<"0">>, DIMS),
    MkLine(<<"A">>, <<"-", "i", "n", "f">>, <<"1">>, DIMS),
    MkLine(<<"C">>, <<"0">>, <<"n", "a", "n">>, DIMS),
    MkLine(<<"A">>, <<"x">>, <<"0">>, DIMS),
    MkLine(<<"A">>, <<"0", ".", "5">>, <<"1">>, DIMS - 1),
    MkLine(<<"A">>, <<"x">>, <<"1">>, DIMS + 1),
    <<>>,
    <<" ", "\t">>,
    <<"#">> \o GoodLine,
    <<" ", "#", " ", "x", ",", "y">> }

RECURSIVE SeqsUpTo(_, _)
SeqsUpTo(S, n) ==
  IF n = 0 THEN {<<>>}
  ELSE LET shorter == SeqsUpTo(S, n - 1)
       IN shorter \cup {Append(q, x) : q \in shorter, x \in S}

InitLoad ==
  /\ pc = "load"
  /\ lines \in SeqsUpTo(InputLines, MaxLines)
  /\ idx = 1
  /\ samples = <<>>
  /\ reached = {}
  /\ err = NoErr
  /\ loaded = <<>>
  /\ IdleInfer /\ IdleAvg /\ IdleFmt

NextLoad ==
  \/ LoadSkip
  \/ LoadParseError
  \/ LoadNonFinite
  \/ LoadAppend
  \/ LoadNoSamples
  \/ LoadReturn

SpecLoad == InitLoad /\ [][NextLoad]_vars

\* -------------------------------------------------------- infer_group
\* Faulty variant: "_" looked for before ":".
infer_group_UnderscoreFirst(name) ==
  IF Contains(name, "_") THEN Strip(SplitFirst(name, "_"))
  ELSE IF Contains(name, ":") THEN Strip(SplitFirst(name, ":"))
  ELSE Strip(name)

infer_group(name) ==
  IF Contains(name, ":") THEN Strip(SplitFirst(name, ":"))
  ELSE IF Contains(name, "_") THEN Strip(SplitFirst(name, "_"))
  ELSE Strip(name)

\* label = infer_group(sample_name)
InferGroup ==
  /\ pc = "infer"
  /\ label' = infer_group(sample_name)
  /\ pc' = "inferred"
  /\ UNCHANGED <<sample_name, loadVars, loaded, avgVars, fmtVars>>

NameChars == {"a", ":", "_", " "}

InitInfer ==
  /\ pc = "infer"
  /\ sample_name \in SeqsUpTo(NameChars, MaxNameLen)
  /\ label = <<>>
  /\ loaded = <<>>
  /\ IdleLoad /\ IdleAvg /\ IdleFmt

NextInfer == InferGroup

SpecInfer == InitInfer /\ [][NextInfer]_vars

\* --------------------------------------------------------------- mean
\* for i in range(DIMS): out[i] += v[i], from coordinate i on
RECURSIVE AddFrom(_, _, _)
AddFrom(out, v, i) ==
  IF i > DIMS THEN <<>> ELSE <<FAdd(out[i], v[i])>> \o AddFrom(out, v, i + 1)

\* The loop `for v in vectors` run over vectors[lo..hi], in that order, from
\* acc: out, or the DimensionError a vector of another length raised.  (The
\* range is halved only to keep the evaluation shallow.)
RECURSIVE Accumulate(_, _, _, _)
Accumulate(acc, vectors, lo, hi) ==
  IF ~acc.ok \/ lo > hi THEN acc
  ELSE IF lo = hi
    THEN IF Len(vectors[lo]) # DIMS THEN [ok |-> FALSE, out |-> NoVec]
         ELSE [ok |-> TRUE, out |-> AddFrom(acc.out, vectors[lo], 1)]
  ELSE LET mid == (lo + hi) \div 2
       IN Accumulate(Accumulate(acc, vectors, lo, mid), vectors, mid + 1, hi)

\* Faulty variant: the sums divided by len(out), not by len(vectors).
mean_DividesByDims(vectors) ==
  IF vectors = <<>> THEN [ok |-> FALSE, err |-> "EmptyInputError", vec |-> NoVec]
  ELSE LET acc == Accumulate([ok |-> TRUE, out |-> [i \in 1..DIMS |-> Zero]],
                             vectors, 1, Len(vectors))
       IN IF ~acc.ok THEN [ok |-> FALSE, err |-> "DimensionError", vec |-> NoVec]
          ELSE [ok |-> TRUE, err |-> "",
                vec |-> [i \in 1..DIMS |-> FDivCount(acc.out[i], Len(acc.out))]]

\* mean(vectors): the vector, or the ValueError it raises
mean(vectors) ==
  IF vectors = <<>> THEN [ok |-> FALSE, err |-> "EmptyInputError", vec |-> NoVec]
  ELSE LET acc == Accumulate([ok |-> TRUE, out |-> [i \in 1..DIMS |-> Zero]],
                             vectors, 1, Len(vectors))
           n == Len(vectors)
       IN IF ~acc.ok THEN [ok |-> FALSE, err |-> "DimensionError", vec |-> NoVec]
          ELSE [ok |-> TRUE, err |-> "", vec |-> [i \in 1..DIMS |-> FDivCount(acc.out[i], n)]]

\* [vec for _, vec in samples]
VecsOf(ss) == [k \in 1..Len(ss) |-> ss[k].vec]

\* average_simple(samples)
average_simple(ss) == mean(VecsOf(ss))

\* ---------------------------------------------------- average_grouped
\* The model's characters in code-point order: Python compares strings code
\* point by code point.
CharOrder ==
  <<"\t", " ", "#", ",", "-", ".", "0", "1", "2", "3", "4", "5", "6", "7", "8", "9",
    ":", "A", "B", "C", "X", "_", "a", "f", "i", "n", "p", "x", "y">>
CodePoint(c) == CHOOSE i \in 1..Len(CharOrder) : CharOrder[i] = c

\* a < b for strings
RECURSIVE StrLess(_, _)
StrLess(a, b) ==
  IF b = <<>> THEN FALSE
  ELSE IF a = <<>> THEN TRUE
  ELSE IF a[1] = b[1] THEN StrLess(Tail(a), Tail(b))
  ELSE CodePoint(a[1]) < CodePoint(b[1])

\* groups.setdefault(g, []).append(vec): the dict's items in insertion order
RECURSIVE AppendToGroup(_, _, _)
AppendToGroup(groups, g, vec) ==
  IF groups = <<>> THEN <<>>
  ELSE <<IF Head(groups).label = g
           THEN [label |-> g, vecs |-> Append(Head(groups).vecs, vec)]
           ELSE Head(groups)>> \o AppendToGroup(Tail(groups), g, vec)

\* Faulty variant: every sample opens a group of its own.
AddToGroup_AlwaysNew(groups, g, vec) == Append(groups, [label |-> g, vecs |-> <<vec>>])

AddToGroup(groups, g, vec) ==
  IF \E j \in 1..Len(groups) : groups[j].label = g
    THEN AppendToGroup(groups, g, vec)
  ELSE Append(groups, [label |-> g, vecs |-> <<vec>>])

\* groups after `for name, vec in samples` has run over samples[lo..hi], in
\* that order (the range is halved, and the first half evaluated before the
\* second is entered, only to keep the evaluation shallow)
RECURSIVE GroupsOf(_, _, _, _)
GroupsOf(groups, ss, lo, hi) ==
  IF lo > hi THEN groups
  ELSE IF lo = hi THEN AddToGroup(groups, infer_group(ss[lo].name), ss[lo].vec)
  ELSE LET mid == (lo + hi) \div 2
           left == GroupsOf(groups, ss, lo, mid)
       IN IF left = <<>> THEN left ELSE GroupsOf(left, ss, mid + 1, hi)

\* One item put at its place in a list sorted by label.
RECURSIVE InsertSorted(_, _)
InsertSorted(sorted, item) ==
  IF sorted = <<>> THEN <<item>>
  ELSE IF StrLess(item.label, Head(sorted).label) THEN <<item>> \o sorted
  ELSE <<Head(sorted)>> \o InsertSorted(Tail(sorted), item)

\* Faulty variants: the items left in insertion order; sorted in descending order.
SortedItems_Unsorted(groups) == groups
SortedItems_Descending(groups) ==
  LET a == IF groups = <<>> THEN <<>>
           ELSE CHOOSE q \in [1..Len(groups) -> {groups[j] : j \in 1..Len(groups)}] :
                  /\ \A j \in 1..(Len(groups) - 1) : ~StrLess(q[j].label, q[j + 1].label)
                  /\ \A j \in 1..Len(groups) : \E h \in 1..Len(groups) : q[h] = groups[j]
  IN a

\* sorted(groups.items())
RECURSIVE SortedItems(_)
SortedItems(groups) ==
  IF groups = <<>> THEN <<>>
  ELSE InsertSorted(SortedItems(SubSeq(groups, 1, Len(groups) - 1)), groups[Len(groups)])

\* average_grouped(samples): (vector, counts), or the ValueError a mean raises
average_grouped(ss) ==
  LET items == SortedItems(GroupsOf(<<>>, ss, 1, Len(ss)))
      means == [j \in 1..Len(items) |-> mean(items[j].vecs)]
      counts == [g \in {items[j].label : j \in 1..Len(items)} |->
                   Len((CHOOSE it \in {items[j] : j \in 1..Len(items)} : it.label = g).vecs)]
  IN IF \E j \in 1..Len(items) : ~means[j].ok
       THEN [ok |-> FALSE,
             err |-> means[CHOOSE j \in 1..Len(items) :
                             ~means[j].ok /\ \A h \in 1..(j - 1) : means[h].ok].err,
             vec |-> NoVec, counts |-> <<>>]
     ELSE LET top == mean([j \in 1..Len(items) |-> means[j].vec])
          IN [ok |-> top.ok, err |-> top.err, vec |-> top.vec,
              counts |-> IF top.ok THEN counts ELSE <<>>]

\* avg = average_simple(samples)
AverageSimple ==
  /\ pc = "loaded"
  /\ ~simple.done
  /\ LET r == average_simple(loaded)
     IN simple' = [done |-> TRUE, ok |-> r.ok, err |-> r.err, vec |-> r.vec, counts |-> <<>>]
  /\ UNCHANGED <<pc, loaded, grouped, loadVars, inferVars, fmtVars>>

\* avg, counts = average_grouped(samples)
AverageGrouped ==
  /\ pc = "loaded"
  /\ ~grouped.done
  /\ LET r == average_grouped(loaded)
     IN grouped' = [done |-> TRUE, ok |-> r.ok, err |-> r.err, vec |-> r.vec,
                    counts |-> r.counts]
  /\ UNCHANGED <<pc, loaded, simple, loadVars, inferVars, fmtVars>>

\* Input vectors: the first and the last coordinate given, i units between them.
Small == Pow(2, 10)
Big == PMax * Small
MkVec(a, b) ==
  [i \in 1..DIMS |-> IF i = 1 THEN Fin(a) ELSE IF i = DIMS THEN Fin(b) ELSE Fin(i * Small)]
ConstVec(a) == [i \in 1..DIMS |-> Fin(a)]

InputSamples ==
  { [name |-> <<"A", ":", "1">>, vec |-> MkVec(Big, Small)],
    [name |-> <<"A", "_", "2">>, vec |-> MkVec(Small, 3 * Small)],
    [name |-> <<" ", "A">>, vec |-> MkVec(-Big, 0)],
    [name |-> <<"B">>, vec |-> MkVec(-Big, Small)],
    [name |-> <<"A", "B", ":", "B">>, vec |-> MkVec(Small, MaxFin)] }

\* Sample lists holding a vector one coordinate short (main never builds one:
\* load_vectors admits DIMS coordinates only; mean checks all the same).
Short == [name |-> <<"C">>, vec |-> [i \in 1..(DIMS - 1) |-> Zero]]
Ragged ==
  {<<Short>>} \cup {<<sm, Short>> : sm \in InputSamples}
              \cup {<<Short, sm>> : sm \in InputSamples}

\* One sample of one group and GroupLarge samples of another, constant vectors.
Imbalanced ==
  <<[name |-> <<"A", ":", "1">>, vec |-> ConstVec(3 * Small)]>>
  \o [k \in 1..GroupLarge |-> [name |-> <<"B", "_", "2">>, vec |-> ConstVec(Small)]]

InitAvg ==
  /\ pc = "loaded"
  /\ loaded \in SeqsUpTo(InputSamples, MaxSamples) \cup Ragged \cup {Imbalanced}
  /\ simple = NoResult
  /\ grouped = NoResult
  /\ IdleLoad /\ IdleInfer /\ IdleFmt

NextAvg ==
  \/ AverageSimple
  \/ AverageGrouped

SpecAvg == InitAvg /\ [][NextAvg]_vars

\* --------------------------------------------------------- format_g25
\* line = format_g25(out_name, avg)
Format ==
  /\ pc = "averaged"
  /\ out_line' = format_g25(out_name, avg)
  /\ pc' = "formatted"
  /\ UNCHANGED <<out_name, avg, reparsed, loaded, loadVars, inferVars, avgVars>>

\* The formatted line given back to the record parser.
Reparse ==
  /\ pc = "formatted"
  /\ reparsed' = parse_g25_line(out_line)
  /\ pc' = "reparsed"
  /\ UNCHANGED <<out_name, avg, out_line, loaded, loadVars, inferVars, avgVars>>

OutNames == { <<"X">>, <<"A", ",", "B">>, <<" ", "p">>, <<"#", "a", ":", "1">>, <<>> }
OutValues == { Fin(0), Fin(11), Fin(-11), Fin(Big), Fin(MaxFin), PInf, NInf }

InitFmt ==
  /\ pc = "averaged"
  /\ out_name \in OutNames
  /\ avg \in {[i \in 1..DIMS |-> IF i = 1 THEN a ELSE IF i = DIMS THEN b ELSE Fin(i)] :
                a \in OutValues, b \in OutValues}
  /\ out_line = <<>>
  /\ reparsed = NoParse
  /\ loaded = <<>>
  /\ IdleLoad /\ IdleInfer /\ IdleAvg

NextFmt ==
  \/ Format
  \/ Reparse

SpecFmt == InitFmt /\ [][NextFmt]_vars

\* ============================================================ claims
Terminal == pc \in {"failed", "loaded"}

\* The number of comma-separated fields of a line: its commas, plus one.
FieldCount(line) == Cardinality({i \in 1..Len(line) : line[i] = ","}) + 1

\* A line load_vectors passes over: nothing but whitespace, or "#" as the
\* first character that is not whitespace.
IsBlankOrComment(raw) ==
  \/ \A i \in 1..Len(raw) : raw[i] \in Whitespace
  \/ \E i \in 1..Len(raw) :
       /\ raw[i] = "#"
       /\ \A j \in 1..(i - 1) : raw[j] \in Whitespace

\* The numbers of the lines that are not passed over, among the first n.
Kept(n) == {k \in 1..n : ~IsBlankOrComment(lines[k])}

\* A line that is not passed over and cannot become a sample.
IsBadLine(raw) ==
  LET r == parse_g25_line(Strip(raw))
  IN ~r.ok \/ ~is_finite_vec(r.vec)
HasBadLine == \E k \in Kept(Len(lines)) : IsBadLine(lines[k])

\* The k-th smallest member of a set of numbers.
RECURSIVE Nth(_, _)
Nth(S, k) ==
  LET m == CHOOSE x \in S : \A y \in S : x <= y
  IN IF k = 1 THEN m ELSE Nth(S \ {m}, k - 1)

\* One sample per line that is not passed over, in file order.
SamplesOfLines ==
  LET K == Kept(Len(lines))
  IN [j \in 1..Cardinality(K) |->
        LET r == parse_g25_line(Strip(lines[Nth(K, j)]))
        IN [name |-> r.name, vec |-> r.vec]]

\* C4 as stated: a bad line makes the load fail and return nothing; otherwise
\* the load returns one sample per line that is not passed over, in file order.
C4_AsStated ==
  Terminal =>
    IF HasBadLine THEN pc = "failed" /\ loaded = <<>>
    ELSE pc = "loaded" /\ loaded = SamplesOfLines

\* C4 amended: a bad line makes the load fail, at the first bad line, and
\* return nothing, whatever was collected before it; otherwise, when at least
\* one line is not passed over, the load returns one sample per such line, in
\* file order; with no such line at all it fails too (NoSamplesError).
C4_AllOrNothing ==
  /\ pc # "loaded" => loaded = <<>>
  /\ Terminal =>
       IF HasBadLine
         THEN /\ pc = "failed"
              /\ err.kind \in {"FormatError", "ValidationError"}
              /\ err.idx \in Kept(Len(lines))
              /\ IsBadLine(lines[err.idx])
              /\ \A k \in Kept(err.idx - 1) : ~IsBadLine(lines[k])
       ELSE IF Kept(Len(lines)) = {} THEN pc = "failed" /\ err.kind = "NoSamplesError"
       ELSE pc = "loaded" /\ loaded = SamplesOfLines

\* C4 witness: the load failed at a bad line after a good line was collected.
C4_Witness ==
  /\ pc = "failed"
  /\ err.kind = "FormatError"
  /\ Len(samples) = 1
  /\ loaded = <<>>

\* C5: a line handed to the parser is accepted only with exactly DIMS + 1
\* fields; with any other count it fails with the field-count error, which
\* carries the observed and the expected count, even when a coordinate is not
\* a number (the count is checked first); an accepted line gives DIMS
\* components.
C5_FieldCount ==
  /\ \A k \in 1..Len(samples) : Len(samples[k].vec) = DIMS
  /\ \A k \in reached :
       (pc = "load" \/ pc = "loaded" \/ k # err.idx) => FieldCount(lines[k]) = DIMS + 1
  /\ (pc = "failed" /\ err.kind \in {"FormatError", "ValidationError"}) =>
       IF FieldCount(lines[err.idx]) # DIMS + 1
         THEN /\ err.kind = "FormatError"
              /\ err.reason = "FieldCount"
              /\ err.got = FieldCount(lines[err.idx])
              /\ err.expected = DIMS + 1
       ELSE err.reason # "FieldCount"

\* C5 witness: a line of DIMS + 2 fields with a coordinate that is not a
\* number fails with the field-count error.
C5_Witness ==
  /\ pc = "failed"
  /\ err.reason = "FieldCount"
  /\ err.got = DIMS + 2
  /\ Contains(lines[err.idx], "x")

\* The fields of a line, trimmed, and the spelling of a non-finite coordinate.
FieldsOf(raw) == LET f == Split(Strip(raw), ",") IN [i \in 1..Len(f) |-> Strip(f[i])]
IsNonFiniteText(f) ==
  f \in {<<"i", "n", "f">>, <<"+", "i", "n", "f">>, <<"-", "i", "n", "f">>,
         <<"n", "a", "n">>, <<"+", "n", "a", "n">>, <<"-", "n", "a", "n">>}
IsNumberText(f) ==
  \/ IsNonFiniteText(f)
  \/ LET body == IF f # <<>> /\ f[1] \in {"+", "-"} THEN Tail(f) ELSE f
     IN /\ \E i \in 1..Len(body) : body[i] \in DigitSet
        /\ \A i \in 1..Len(body) : body[i] \in DigitSet \cup {"."}
        /\ Cardinality({i \in 1..Len(body) : body[i] = "."}) <= 1

\* A line of DIMS + 1 fields whose coordinates all read as numbers, one of
\* them an infinity or a NaN.
IsNonFiniteLine(raw) ==
  LET f == FieldsOf(raw)
  IN /\ Len(f) = DIMS + 1
     /\ \A i \in 2..Len(f) : IsNumberText(f[i])
     /\ \E i \in 2..Len(f) : IsNonFiniteText(f[i])

\* C6: every admitted sample has DIMS components, all finite; a line that
\* parses but holds an infinity or a NaN is rejected, with the sample's name
\* and the line's number, and is never appended.
C6_FiniteSamples ==
  /\ \A k \in 1..Len(samples) :
       /\ Len(samples[k].vec) = DIMS
       /\ \A i \in 1..DIMS : samples[k].vec[i].k = "fin"
  /\ loaded \in {<<>>, samples}
  /\ \A k \in reached :
       IsNonFiniteLine(lines[k]) =>
         /\ pc = "failed"
         /\ err.kind = "ValidationError"
         /\ err.idx = k
         /\ err.name = FieldsOf(lines[k])[1]
  /\ (pc = "failed" /\ err.kind = "ValidationError") => IsNonFiniteLine(lines[err.idx])

\* C6 witness: a non-finite line was rejected after a sample had been admitted.
C6_Witness ==
  /\ pc = "failed"
  /\ err.kind = "ValidationError"
  /\ err.idx = 2
  /\ Len(samples) = 1

\* C7: the load ends with NoSamplesError exactly when every line is blank or a
\* comment; such lines never reach the parser, never raise and never give a
\* sample.
C7_NoSamples ==
  /\ reached \subseteq Kept(Len(lines))
  /\ Len(samples) <= Cardinality(Kept(idx - 1))
  /\ (pc = "failed" /\ err.kind # "NoSamplesError") => err.idx \in Kept(Len(lines))
  /\ Terminal => (err.kind = "NoSamplesError" <=> Kept(Len(lines)) = {})
  /\ (pc = "load" /\ Kept(Len(lines)) = {}) => reached = {} /\ samples = <<>>

\* C7 witness: a file of a comment line that holds a whole record, and
\* nothing else that counts, ended with NoSamplesError.
C7_Witness ==
  /\ pc = "failed"
  /\ err.kind = "NoSamplesError"
  /\ \E k \in 1..Len(lines) : lines[k] = <<"#">> \o GoodLine
  /\ reached = {}

\* C3: the label is the text before the first ":" when there is one,
\* otherwise the text before the first "_" when there is one, otherwise the
\* whole name, trimmed in each case; every name gets a label.
IsTrimOf(t, s) ==
  \E i \in 1..(Len(s) + 1) : \E j \in 0..Len(s) :
    /\ t = SubSeq(s, i, j)
    /\ \A h \in 1..(i - 1) : s[h] \in Whitespace
    /\ \A h \in (j + 1)..Len(s) : s[h] \in Whitespace
    /\ t = <<>> \/ (t[1] \notin Whitespace /\ t[Len(t)] \notin Whitespace)
IsFirst(s, c, k) == k \in 1..Len(s) /\ s[k] = c /\ \A h \in 1..(k - 1) : s[h] # c
C3_Precedence ==
  /\ pc = "infer" => ENABLED InferGroup
  /\ pc = "inferred" =>
       IF \E k \in 1..Len(sample_name) : sample_name[k] = ":"
         THEN \E k \in 1..Len(sample_name) :
                /\ IsFirst(sample_name, ":", k)
                /\ IsTrimOf(label, SubSeq(sample_name, 1, k - 1))
       ELSE IF \E k \in 1..Len(sample_name) : sample_name[k] = "_"
         THEN \E k \in 1..Len(sample_name) :
                /\ IsFirst(sample_name, "_", k)
                /\ IsTrimOf(label, SubSeq(sample_name, 1, k - 1))
       ELSE IsTrimOf(label, sample_name)

\* C3 witness: a name with "_" before its first ":" got the text before the
\* ":" as its label, the "_" in it.
C3_Witness ==
  /\ pc = "inferred"
  /\ Contains(sample_name, ":")
  /\ Contains(label, "_")
  /\ Len(label) < Len(sample_name) - 1

\* ------------------------------------------------- claims on averaging
LabelOf(sm) == infer_group(sm.name)
LabelsOf(ss) == {LabelOf(ss[k]) : k \in 1..Len(ss)}
AllDims(ss) == \A k \in 1..Len(ss) : Len(ss[k].vec) = DIMS
Averageable(ss) == ss # <<>> /\ AllDims(ss)

\* Coordinate i summed over vs[lo..hi] in list order on top of acc, each
\* addition rounded as a float addition is.
RECURSIVE ColumnSum(_, _, _, _, _)
ColumnSum(acc, vs, i, lo, hi) ==
  IF lo > hi \/ acc.k = "nan" THEN acc
  ELSE IF lo = hi THEN FAdd(acc, vs[lo][i])
  ELSE LET mid == (lo + hi) \div 2
       IN ColumnSum(ColumnSum(acc, vs, i, lo, mid), vs, i, mid + 1, hi)

\* The same sum over the integers, and whether each partial sum is a float.
RECURSIVE ExactRange(_, _, _, _)
ExactRange(vs, i, lo, hi) ==
  IF lo > hi THEN 0
  ELSE IF lo = hi THEN vs[lo][i].n
  ELSE LET mid == (lo + hi) \div 2
       IN ExactRange(vs, i, lo, mid) + ExactRange(vs, i, mid + 1, hi)
ExactSum(vs, i, k) == ExactRange(vs, i, 1, k)
IsFloat(m) == Abs(m) <= MaxFin /\ RoundMag(Abs(m), 0, 1) = Abs(m)
SumsExactly(vs, i) == \A k \in 1..Len(vs) : IsFloat(ExactSum(vs, i, k))

\* The float nearest to num / den.
Nearest(num, den) == MkFloat(Sgn(num), RoundMag(Abs(num) \div den, Abs(num) % den, den))

\* Coordinate i of the mean of vs: the sum in list order divided by the count.
MeanAt(vs, i) == FDivCount(ColumnSum(Zero, vs, i, 1, Len(vs)), Len(vs))

\* C1: the mean of a non-empty list of DIMS-component vectors has DIMS
\* components, and component i is the sum of the i-th components (a float sum,
\* taken in list order) divided by the number of vectors; it is the exact
\* quotient, rounded once, whenever the partial sums are floats themselves.
C1_Mean ==
  (simple.done /\ Averageable(loaded)) =>
    /\ simple.ok
    /\ Len(simple.vec) = DIMS
    /\ \A i \in 1..DIMS :
         /\ simple.vec[i] = MeanAt(VecsOf(loaded), i)
         /\ SumsExactly(VecsOf(loaded), i) =>
              simple.vec[i] = Nearest(ExactSum(VecsOf(loaded), i, Len(loaded)), Len(loaded))

\* C1 witness: a mean of MaxSamples vectors, its first and last components
\* different, the sums of the last component exact.
C1_Witness ==
  /\ simple.done /\ simple.ok
  /\ Len(loaded) = MaxSamples
  /\ simple.vec[1] # simple.vec[DIMS]
  /\ simple.vec[DIMS] # Zero
  /\ SumsExactly(VecsOf(loaded), DIMS)

\* The vectors of the samples of group g, in list order, and the group labels
\* in ascending order.
MembersOf(ss, g) == VecsOf(SelectSeq(ss, LAMBDA sm : LabelOf(sm) = g))
IsAscending(q) == \A j \in 1..(Len(q) - 1) : StrLess(q[j], q[j + 1])
AscendingLabels(ss) ==
  LET L == LabelsOf(ss)
  IN CHOOSE q \in [1..Cardinality(L) -> L] : IsAscending(q)

\* The group means of ss, one per label, in ascending order of the labels.
GroupMeans(ss) ==
  LET q == AscendingLabels(ss)
  IN [j \in 1..Len(q) |-> [i \in 1..DIMS |-> MeanAt(MembersOf(ss, q[j]), i)]]

\* C2: the grouped average is the mean of the group means, one vector per
\* distinct label whatever the group's size, divided by the number of labels;
\* a single group gives its own mean; one sample against GroupLarge samples of
\* constant vectors gives the half-and-half mean of the two vectors.
C2_GroupedMean ==
  (grouped.done /\ Averageable(loaded)) =>
    LET gm == GroupMeans(loaded)
    IN /\ grouped.ok
       /\ Len(gm) = Cardinality(LabelsOf(loaded))
       /\ DOMAIN grouped.counts = LabelsOf(loaded)
       /\ \A g \in LabelsOf(loaded) : grouped.counts[g] = Len(MembersOf(loaded, g))
       /\ \A i \in 1..DIMS : grouped.vec[i] = MeanAt(gm, i)
       /\ Len(gm) = 1 => grouped.vec = gm[1]
       /\ loaded = Imbalanced =>
            /\ grouped.vec = ConstVec(2 * Small)
            /\ grouped.vec # [i \in 1..DIMS |-> MeanAt(VecsOf(loaded), i)]

\* C2 witness: the one-against-GroupLarge input averaged both ways, the
\* grouped result and the simple one different.
C2_Witness ==
  /\ loaded = Imbalanced
  /\ grouped.done /\ grouped.ok
  /\ simple.done /\ simple.ok
  /\ grouped.vec # simple.vec
  /\ grouped.counts[<<"B">>] = GroupLarge

\* No two samples of the same group.
OnePerGroup(ss) == \A j, k \in 1..Len(ss) : j # k => LabelOf(ss[j]) # LabelOf(ss[k])

\* The samples of ss, rearranged by p.
Perms(n) == {p \in [1..n -> 1..n] : \A a, b \in 1..n : a # b => p[a] # p[b]}
Reorder(ss, p) == [k \in 1..Len(ss) |-> ss[p[k]]]
Rearrangements(ss) == {Reorder(ss, p) : p \in Perms(Len(ss))}
InLabelOrder(ss) == \A j \in 1..(Len(ss) - 1) : StrLess(LabelOf(ss[j]), LabelOf(ss[j + 1]))

\* C9 as stated: with one sample per group, the grouped average is the simple
\* average of the same list, and each count is 1.
C9_AsStated ==
  (simple.done /\ grouped.done /\ Averageable(loaded) /\ OnePerGroup(loaded)) =>
    /\ grouped.vec = simple.vec
    /\ \A g \in DOMAIN grouped.counts : grouped.counts[g] = 1

\* C9 amended: with one sample per group, each count is 1 and the grouped
\* average is the simple average of the samples taken in ascending order of
\* their labels: the simple average of the list itself when the list is in
\* that order, and otherwise the same sum added up in another order.
C9_OnePerGroup ==
  (simple.done /\ grouped.done /\ Averageable(loaded) /\ OnePerGroup(loaded)) =>
    /\ DOMAIN grouped.counts = LabelsOf(loaded)
    /\ \A g \in DOMAIN grouped.counts : grouped.counts[g] = 1
    /\ \A q \in Rearrangements(loaded) :
         InLabelOrder(q) => grouped.vec = [i \in 1..DIMS |-> MeanAt(VecsOf(q), i)]
    /\ InLabelOrder(loaded) => grouped.vec = simple.vec

\* C9 witness: MaxSamples samples of as many groups, not in label order,
\* averaged both ways.
C9_Witness ==
  /\ simple.done /\ grouped.done
  /\ Averageable(loaded) /\ OnePerGroup(loaded)
  /\ Len(loaded) = MaxSamples
  /\ ~InLabelOrder(loaded)

\* C10 as stated: every rearrangement of the samples gives the same vector and
\* the same counts.
C10_AsStated ==
  (grouped.done /\ Len(loaded) <= MaxSamples) =>
    \A q \in Rearrangements(loaded) :
      LET r == average_grouped(q)
      IN r.ok = grouped.ok /\ r.vec = grouped.vec /\ r.counts = grouped.counts

\* q holds the vectors of each group in the order ss has them.
KeepsGroupOrder(ss, q) == \A g \in LabelsOf(ss) : MembersOf(q, g) = MembersOf(ss, g)

\* C10 amended: every rearrangement of the samples gives the same counts, and
\* the same vector when it leaves the samples of each group in the order they
\* had (the groups are combined in ascending order of label, but each group's
\* own sum is taken in file order).
C10_OrderIndependent ==
  (grouped.done /\ Len(loaded) <= MaxSamples) =>
    \A q \in Rearrangements(loaded) :
      LET r == average_grouped(q)
      IN /\ r.ok = grouped.ok
         /\ r.counts = grouped.counts
         /\ KeepsGroupOrder(loaded, q) => r.vec = grouped.vec

\* C10 witness: samples of MaxSamples groups whose first-appearance order is
\* not the order of their labels.
C10_Witness ==
  /\ grouped.done /\ grouped.ok
  /\ Len(loaded) = MaxSamples
  /\ OnePerGroup(loaded)
  /\ ~InLabelOrder(loaded)
  /\ \E q \in Rearrangements(loaded) : q # loaded /\ KeepsGroupOrder(loaded, q)

\* ------------------------------------------------ claim on formatting
\* x and y are the same number once rounded to Decimals decimals.
SameRounded(x, y) ==
  IF x.k = "fin" /\ y.k = "fin"
    THEN Sgn(x.n) * RoundDecimals(Abs(x.n)) = Sgn(y.n) * RoundDecimals(Abs(y.n))
  ELSE x = y

RoundTrips ==
  /\ reparsed.ok
  /\ Len(reparsed.vec) = DIMS
  /\ \A i \in 1..DIMS : SameRounded(reparsed.vec[i], avg[i])

\* C8: for every name and every DIMS-component vector, the formatted line
\* parses back to a DIMS-component vector equal to the original once rounded
\* to Decimals decimals.
C8_RoundTrip == pc = "reparsed" => RoundTrips

\* The round trip of a name that holds no comma.
RoundTripWithoutComma == (pc = "reparsed" /\ ~Contains(out_name, ",")) => RoundTrips

====
